---- MODULE Spec2Model ----
(***************************************************************************)
(* A model of the GKR layered-circuit evaluator and wiring-predicate       *)
(* encoder (gkr/src/circuit.rs), the Groth16 powers-of-tau helpers         *)
(* (groth16/src/utils.rs) and the Fiat-Shamir transcript                   *)
(* (fiat_shamir/src/lib.rs).                                               *)
(***************************************************************************)
EXTENDS Integers, Sequences, FiniteSets, TLC

\* ------------------------------------------------------------------ bounds
\* The field F is Z_Modulus; evaluate is generic over any type with + and *.
Modulus == 3
\* G1 is the cyclic group of order GroupOrder, written additively as the
\* multiples of its generator; the scalar field is the integers modulo it.
GroupOrder == 5
\* generate_powers_of_tau_g1 is asked for 0..MaxN powers; polynomials have at
\* most MaxN coefficients.
MaxN == 3
\* Transcript messages have at most MaxMsgLen bytes, each in 0..MaxByte.
MaxMsgLen == 1
MaxByte == 1
\* A transcript takes at most MaxOps operations after new().
MaxOps == 3
\* Circuits have at most MaxDepth layers.
MaxDepth == 2
\* Layers have 1..MaxWidth gates, input vectors 1..MaxWidth values, and gate
\* input indices range over 0..MaxWidth-1 (so some are out of range).
MaxWidth == 2

VARIABLES
    \* ---- gkr: the circuit, the input vector and the evaluate() call
    circuit,          \* Circuit { layers: Vec<CircuitLayer { layer: Vec<Gate> }> }
    input,            \* &[F]
    pc,               \* where the call in progress stands
    layers,           \* evaluate: let mut layers
    current_input,    \* evaluate: let mut current_input
    remaining,        \* evaluate: layers of self.layers.iter().rev() not yet visited
    evaluation,       \* evaluate: the returned CircuitEvaluation
    \* ---- gkr: the get_add_n_mul_mle() call
    layer_index,      \* its argument
    mle_num_of_vars,  \* let mle_num_of_vars
    gate_i,           \* gates of the layer already visited by the for loop
    add_usize_vec,    \* let mut add_usize_vec
    mul_usize_vec,    \* let mut mul_usize_vec
    mle_pair,         \* the returned (add_mle, mul_mle), as dense tables
    \* ---- groth16: the powers of tau and the homomorphic evaluation
    tau,              \* P::ScalarField
    n,                \* usize
    poly,             \* UnivariantPolynomial: its coefficients, lowest degree first
    powers_of_tau_g1, \* the vector generate_powers_of_tau_g1 returned
    lc_result,        \* the G1 element linear_combination_homomorphic_poly_eval_g1 returned
    g_pc,             \* where the groth16 calls stand
    \* ---- fiat_shamir: two transcripts driven by the same operations
    hasher,           \* FiatShamirTranscript.hasher: the bytes absorbed since the last reset
    hasher2,          \* the hasher of the second transcript
    keccak,           \* the digests computed so far: keccak[d] is the input of digest d
    fs_log,           \* the operations applied so far, with what each sample returned
    fs_ops            \* how many operations were applied

evalVars == <<pc, layers, current_input, remaining, evaluation>>
encVars == <<layer_index, mle_num_of_vars, gate_i, add_usize_vec, mul_usize_vec, mle_pair>>
grothVars == <<tau, n, poly, powers_of_tau_g1, lc_result, g_pc>>
fsVars == <<hasher, hasher2, keccak, fs_log, fs_ops>>
vars == <<circuit, input, evalVars, encVars, grothVars, fsVars>>

\* ------------------------------------------------------------- data model
SeqsUpTo(S, max) == UNION {[1..k -> S] : k \in 0..max}

NonEmptySeqsUpTo(S, max) == UNION {[1..k -> S] : k \in 1..max}

F == 0..(Modulus - 1)

GateType == {"Add", "Mul"}

Gate == [g_type : GateType, inputs : (0..(MaxWidth - 1)) \X (0..(MaxWidth - 1))]

CircuitLayer == [layer : NonEmptySeqsUpTo(Gate, MaxWidth)]

Circuit == [layers : SeqsUpTo(CircuitLayer, MaxDepth)]

Inputs == NonEmptySeqsUpTo(F, MaxWidth)

Reverse(s) == [i \in 1..Len(s) |-> s[Len(s) + 1 - i]]

\* ------------------------------------------------------ Circuit::evaluate
\* The closure of the map: current_input[e.inputs[0]] op current_input[e.inputs[1]].
\* Indices are 0-based in the code and 1-based here.
\* GateOp with the two operations exchanged.
GateOpSwapped(e, cur) ==
    IF e.g_type = "Add"
    THEN (cur[e.inputs[1] + 1] * cur[e.inputs[2] + 1]) % Modulus
    ELSE (cur[e.inputs[1] + 1] + cur[e.inputs[2] + 1]) % Modulus

GateOp(e, cur) ==
    IF e.g_type = "Add"
    THEN (cur[e.inputs[1] + 1] + cur[e.inputs[2] + 1]) % Modulus
    ELSE (cur[e.inputs[1] + 1] * cur[e.inputs[2] + 1]) % Modulus

\* Slice indexing panics when an index is not below the slice's length.
IndexPanics(l, cur) ==
    \E j \in 1..Len(l.layer) :
        \/ l.layer[j].inputs[1] >= Len(cur)
        \/ l.layer[j].inputs[2] >= Len(cur)

\* let temp_layer: Vec<_> = layer.layer.iter().map(..).collect();
TempLayer(l, cur) == [j \in 1..Len(l.layer) |-> GateOp(l.layer[j], cur)]

\* CallEvaluate without layers.push(input.to_vec()).
CallEvaluateNoSeed ==
    /\ pc = "idle"
    /\ layers' = <<>>
    /\ current_input' = input
    /\ remaining' = Len(circuit.layers)
    /\ pc' = "eval_loop"
    /\ UNCHANGED <<circuit, input, evaluation, encVars, grothVars, fsVars>>

\* let mut layers = vec![]; let mut current_input = input; layers.push(input.to_vec());
CallEvaluate ==
    /\ pc = "idle"
    /\ layers' = <<input>>
    /\ current_input' = input
    /\ remaining' = Len(circuit.layers)
    /\ pc' = "eval_loop"
    /\ UNCHANGED <<circuit, input, evaluation, encVars, grothVars, fsVars>>

\* One iteration of: for layer in self.layers.iter().rev() { .. }
EvalLayer ==
    /\ pc = "eval_loop"
    /\ remaining >= 1
    /\ LET l == circuit.layers[remaining] IN
        IF IndexPanics(l, current_input)
        THEN /\ pc' = "eval_panic"
             /\ UNCHANGED <<layers, current_input, remaining>>
        ELSE /\ layers' = Append(layers, TempLayer(l, current_input))
             /\ current_input' = TempLayer(l, current_input)
             /\ remaining' = remaining - 1
             /\ pc' = "eval_loop"
    /\ UNCHANGED <<circuit, input, evaluation, encVars, grothVars, fsVars>>

\* EvalReturn without layers.reverse().
EvalReturnNoReverse ==
    /\ pc = "eval_loop"
    /\ remaining = 0
    /\ evaluation' = [layers |-> layers]
    /\ pc' = "eval_done"
    /\ UNCHANGED <<circuit, input, layers, current_input, remaining, encVars, grothVars, fsVars>>

\* layers.reverse(); CircuitEvaluation { layers }
EvalReturn ==
    /\ pc = "eval_loop"
    /\ remaining = 0
    /\ evaluation' = [layers |-> Reverse(layers)]
    /\ pc' = "eval_done"
    /\ UNCHANGED <<circuit, input, layers, current_input, remaining, encVars, grothVars, fsVars>>

\* ------------------------------------------------ Circuit::get_add_n_mul_mle
Pow2(e) == 2 ^ e

\* The bounds check with > for >=.
LayerIndexOutOfBoundsOffByOne(k, c) == k > Len(c.layers)

\* if layer_index >= self.layers.len() { panic!("Layer index out of bounds"); }
LayerIndexOutOfBounds(k, c) == k >= Len(c.layers)

\* utils::compute_mle_num_var_from_layer_index(layer_index): it is given the
\* layer index alone.  Its body assumes the canonical doubling structure
\* (layer k has 2^k gates and reads 2^(k+1) values): k bits for the gate
\* address and k+1 bits for each of the two input addresses.
compute_mle_num_var_from_layer_index(k) == k + 2 * (k + 1)

\* The number of binary digits of x ("0" has one).
BitLen(x) == CHOOSE w \in 1..(x + 1) : Pow2(w) > x /\ (w = 1 \/ Pow2(w - 1) <= x)

\* utils::get_gate_properties(i, a, b): it is given the three numbers alone
\* and concatenates their binary representations, most significant first.
get_gate_properties(i, a, b) ==
    i * Pow2(BitLen(a) + BitLen(b)) + a * Pow2(BitLen(b)) + b

Range(s) == {s[j] : j \in 1..Len(s)}

\* utils::usize_vec_to_mle(vec, num_vars): the dense table of length
\* 2^num_vars, one at the indices of vec and zero elsewhere, handed to
\* Multilinear::new(table, num_vars).  Entry x of the table is evaluations[x+1].
usize_vec_to_mle(vec, num_vars) ==
    [evaluations |-> [x \in 1..Pow2(num_vars) |-> IF (x - 1) \in Range(vec) THEN 1 ELSE 0],
     num_vars |-> num_vars]

NoMle == [evaluations |-> <<>>, num_vars |-> 0]

\* The call, up to the for loop.
GetAddNMulMleCall ==
    /\ pc = "idle"
    /\ \E k \in 0..MaxDepth :
        /\ layer_index' = k
        /\ IF LayerIndexOutOfBounds(k, circuit)
           THEN /\ pc' = "enc_layer_index_out_of_bounds"
                /\ UNCHANGED <<mle_num_of_vars, add_usize_vec, mul_usize_vec>>
           ELSE /\ mle_num_of_vars' = compute_mle_num_var_from_layer_index(k)
                /\ add_usize_vec' = <<>>
                /\ mul_usize_vec' = <<>>
                /\ pc' = "enc_loop"
    /\ UNCHANGED <<circuit, input, layers, current_input, remaining, evaluation,
                   grothVars, fsVars,
                   gate_i, mle_pair>>

\* The gates of self.layers[layer_index].layer still to visit.
GatesLeft ==
    IF layer_index < Len(circuit.layers)
    THEN Len(circuit.layers[layer_index + 1].layer) - gate_i
    ELSE 0

\* One iteration of: for (i, gate) in self.layers[layer_index].layer.iter().enumerate()
EncGate ==
    /\ pc = "enc_loop"
    /\ IF layer_index >= Len(circuit.layers)
       THEN /\ pc' = "enc_index_panic"
            /\ UNCHANGED <<gate_i, add_usize_vec, mul_usize_vec>>
       ELSE /\ GatesLeft > 0
            /\ LET gate == circuit.layers[layer_index + 1].layer[gate_i + 1]
                   gate_property == get_gate_properties(gate_i, gate.inputs[1], gate.inputs[2])
               IN  IF gate.g_type = "Add"
                   THEN /\ add_usize_vec' = Append(add_usize_vec, gate_property)
                        /\ UNCHANGED mul_usize_vec
                   ELSE /\ mul_usize_vec' = Append(mul_usize_vec, gate_property)
                        /\ UNCHANGED add_usize_vec
            /\ gate_i' = gate_i + 1
            /\ pc' = "enc_loop"
    /\ UNCHANGED <<circuit, input, layers, current_input, remaining, evaluation,
                   grothVars, fsVars,
                   layer_index, mle_num_of_vars, mle_pair>>

\* let add_mle = ..; let mul_mle = ..; (add_mle, mul_mle)
EncReturn ==
    /\ pc = "enc_loop"
    /\ layer_index < Len(circuit.layers)
    /\ GatesLeft = 0
    /\ mle_pair' = <<usize_vec_to_mle(add_usize_vec, mle_num_of_vars),
                     usize_vec_to_mle(mul_usize_vec, mle_num_of_vars)>>
    /\ pc' = "enc_done"
    /\ UNCHANGED <<circuit, input, layers, current_input, remaining, evaluation,
                   grothVars, fsVars,
                   layer_index, mle_num_of_vars, gate_i, add_usize_vec, mul_usize_vec>>

\* ---------------------------------------------------------- groth16 utils
Scalar == 0..(GroupOrder - 1)

\* P::G1::generator(): G1 elements are written as multiples of the generator.
generator == 1

\* P::G1::default(): the identity of the group.
G1Default == 0

\* Group::mul_bigint(self, scalar.into_bigint()).
mul_bigint(e, x) == (e * x) % GroupOrder

\* acc + res in G1.
G1Add(a, b) == (a + b) % GroupOrder

RECURSIVE PowersLoop(_, _, _, _)
\* for _ in 1..n { push(generator.mul_bigint(tau_power)); tau_power = tau_power * tau; }
PowersLoop(vec, tau_power, t, iters) ==
    IF iters <= 0
    THEN vec
    ELSE PowersLoop(Append(vec, mul_bigint(generator, tau_power)),
                    (tau_power * t) % GroupOrder, t, iters - 1)

\* generate_powers_of_tau_g1 without tau_power = tau_power * tau.
generate_powers_of_tau_g1_stale_power(t, cnt) ==
    [k \in 1..(IF cnt >= 1 THEN cnt ELSE 1) |->
        IF k = 1 THEN generator ELSE mul_bigint(generator, t)]

\* let mut tau_power = tau; powers_of_tau_g1.push(generator); for _ in 1..n { .. }
generate_powers_of_tau_g1(t, cnt) == PowersLoop(<<generator>>, t, t, cnt - 1)

RECURSIVE LinCombFold(_, _, _, _)
\* .iter().enumerate().fold(P::G1::default(), |acc, (index, coeff)|
\*     acc + powers_of_secret_gx[index].mul_bigint(coeff.into_bigint()))
LinCombFold(acc, coefficients, powers_of_secret_gx, index) ==
    IF index >= Len(coefficients)
    THEN acc
    ELSE LinCombFold(
            G1Add(acc, mul_bigint(powers_of_secret_gx[index + 1], coefficients[index + 1])),
            coefficients, powers_of_secret_gx, index + 1)

linear_combination_homomorphic_poly_eval_g1(p, powers_of_secret_gx) ==
    LinCombFold(G1Default, p, powers_of_secret_gx, 0)

GeneratePowersOfTauG1 ==
    /\ g_pc = "idle"
    /\ powers_of_tau_g1' = generate_powers_of_tau_g1(tau, n)
    /\ g_pc' = "powers"
    /\ UNCHANGED <<circuit, input, evalVars, encVars, fsVars, tau, n, poly, lc_result>>

\* powers_of_secret_gx[index] panics when the polynomial has more
\* coefficients than there are powers.
LinearCombination ==
    /\ g_pc = "powers"
    /\ IF Len(poly) > Len(powers_of_tau_g1)
       THEN /\ g_pc' = "lc_panic"
            /\ UNCHANGED lc_result
       ELSE /\ lc_result' = linear_combination_homomorphic_poly_eval_g1(poly, powers_of_tau_g1)
            /\ g_pc' = "lc_done"
    /\ UNCHANGED <<circuit, input, evalVars, encVars, fsVars, tau, n, poly, powers_of_tau_g1>>

\* ------------------------------------------------- FiatShamirTranscript
Msgs == SeqsUpTo(0..MaxByte, MaxMsgLen)

\* Keccak256 of the absorbed bytes x, given the digests computed so far: the
\* same input has the same digest and different inputs have different
\* digests.  Digest d stands in a byte stream as the one value MaxByte + d.
Keccak256(x, table) ==
    IF \E d \in 1..Len(table) : table[d] = x
    THEN MaxByte + (CHOOSE d \in 1..Len(table) : table[d] = x)
    ELSE MaxByte + Len(table) + 1

Computed(x, table) ==
    IF \E d \in 1..Len(table) : table[d] = x THEN table ELSE Append(table, x)

\* sample without self.hasher.update(&response).
sample_without_absorbing(h, table) ==
    [response |-> Keccak256(h, table), hasher |-> <<>>, keccak |-> Computed(h, table)]

\* let response = self.hasher.finalize_reset(); self.hasher.update(&response); response
sample(h, table) ==
    [response |-> Keccak256(h, table),
     hasher |-> <<Keccak256(h, table)>>,
     keccak |-> Computed(h, table)]

\* sample() on the first transcript, then on the second.
SampleBoth(st) ==
    LET r1 == sample(st.hasher, st.keccak)
        r2 == sample(st.hasher2, r1.keccak)
    IN  [hasher |-> r1.hasher, hasher2 |-> r2.hasher, keccak |-> r2.keccak,
         log |-> Append(st.log, [op |-> "sample", msg |-> <<>>,
                                 out |-> r1.response, out2 |-> r2.response])]

RECURSIVE sample_n(_, _)
\* for _ in 0..n { response.push(self.sample()); }
sample_n(st, cnt) == IF cnt = 0 THEN st ELSE sample_n(SampleBoth(st), cnt - 1)

FsState == [hasher |-> hasher, hasher2 |-> hasher2, keccak |-> keccak, log |-> fs_log]

\* self.hasher.update(&msg), on both transcripts.
FsAppend ==
    /\ fs_ops < MaxOps
    /\ \E msg \in Msgs :
        /\ hasher' = hasher \o msg
        /\ hasher2' = hasher2 \o msg
        /\ fs_log' = Append(fs_log, [op |-> "append", msg |-> msg, out |-> 0, out2 |-> 0])
    /\ fs_ops' = fs_ops + 1
    /\ UNCHANGED <<circuit, input, evalVars, encVars, grothVars, keccak>>

FsSample ==
    /\ fs_ops < MaxOps
    /\ LET st == SampleBoth(FsState) IN
        /\ hasher' = st.hasher
        /\ hasher2' = st.hasher2
        /\ keccak' = st.keccak
        /\ fs_log' = st.log
    /\ fs_ops' = fs_ops + 1
    /\ UNCHANGED <<circuit, input, evalVars, encVars, grothVars>>

\* sample_n(cnt) takes the place of cnt operations (of one when cnt is 0).
FsSampleN ==
    /\ fs_ops < MaxOps
    /\ \E cnt \in 0..(MaxOps - fs_ops) :
        LET st == sample_n(FsState, cnt) IN
        /\ hasher' = st.hasher
        /\ hasher2' = st.hasher2
        /\ keccak' = st.keccak
        /\ fs_log' = st.log
        /\ fs_ops' = fs_ops + (IF cnt = 0 THEN 1 ELSE cnt)
    /\ UNCHANGED <<circuit, input, evalVars, encVars, grothVars>>

\* ------------------------------------------------------ specifications
GrothIdle ==
    /\ tau = 0
    /\ n = 0
    /\ poly = <<>>
    /\ powers_of_tau_g1 = <<>>
    /\ lc_result = G1Default
    /\ g_pc = "idle"

FsIdle ==
    /\ hasher = <<>>
    /\ hasher2 = <<>>
    /\ keccak = <<>>
    /\ fs_log = <<>>
    /\ fs_ops = MaxOps

GkrIdle ==
    /\ circuit = [layers |-> <<>>]
    /\ input = <<0>>

EncIdle ==
    /\ layer_index = 0
    /\ mle_num_of_vars = 0
    /\ gate_i = 0
    /\ add_usize_vec = <<>>
    /\ mul_usize_vec = <<>>
    /\ mle_pair = <<NoMle, NoMle>>

EvalIdle ==
    /\ pc = "idle"
    /\ layers = <<>>
    /\ current_input = <<>>
    /\ remaining = 0
    /\ evaluation = [layers |-> <<>>]

Init ==
    /\ circuit \in Circuit
    /\ input \in Inputs
    /\ EvalIdle
    /\ EncIdle
    /\ GrothIdle
    /\ FsIdle

Next ==
    \/ CallEvaluate
    \/ EvalLayer
    \/ EvalReturn

Spec == Init /\ [][Next]_vars

\* The encoder never reads the input vector; only its length matters to the
\* properties, so the inputs here are the all-zero vectors.
EncInit ==
    /\ circuit \in Circuit
    /\ input \in {[j \in 1..len |-> 0] : len \in 1..MaxWidth}
    /\ EvalIdle
    /\ EncIdle
    /\ GrothIdle
    /\ FsIdle

EncNext ==
    \/ GetAddNMulMleCall
    \/ EncGate
    \/ EncReturn

SpecEnc == EncInit /\ [][EncNext]_vars

GrothInit ==
    /\ tau \in Scalar
    /\ n \in 0..MaxN
    /\ poly \in SeqsUpTo(Scalar, MaxN)
    /\ powers_of_tau_g1 = <<>>
    /\ lc_result = G1Default
    /\ g_pc = "idle"
    /\ GkrIdle
    /\ EvalIdle
    /\ EncIdle
    /\ FsIdle

GrothNext ==
    \/ GeneratePowersOfTauG1
    \/ LinearCombination

SpecGroth == GrothInit /\ [][GrothNext]_vars

\* FiatShamirTranscript::new(msg), for both transcripts.
FsInit ==
    /\ \E msg \in Msgs :
        /\ hasher = msg
        /\ hasher2 = msg
        /\ fs_log = <<[op |-> "new", msg |-> msg, out |-> 0, out2 |-> 0]>>
    /\ keccak = <<>>
    /\ fs_ops = 0
    /\ GkrIdle
    /\ EvalIdle
    /\ EncIdle
    /\ GrothIdle

FsNext ==
    \/ FsAppend
    \/ FsSample
    \/ FsSampleN

SpecFS == FsInit /\ [][FsNext]_vars

\* ================================================================= properties
\* The number of values the gates of circuit layer k (1-based) read: the size
\* of the next-deeper layer, or of the input vector for the innermost layer.
NextSize(k) ==
    IF k = Len(circuit.layers) THEN Len(input) ELSE Len(circuit.layers[k + 1].layer)

\* Every gate input index of the circuit is in range for the vector it reads.
InRange ==
    \A k \in 1..Len(circuit.layers) : \A j \in 1..Len(circuit.layers[k].layer) :
        /\ circuit.layers[k].layer[j].inputs[1] < NextSize(k)
        /\ circuit.layers[k].layer[j].inputs[2] < NextSize(k)

EvalEnded == pc \in {"eval_done", "eval_panic"}

Depth == Len(circuit.layers)

\* C1: on a circuit whose gate indices are all in range, evaluate returns a
\* trace T in which, for every circuit layer k and every gate i with inputs
\* (a, b), T[k][i] = T[k+1][a] + T[k+1][b] for an Add gate and
\* T[k+1][a] * T[k+1][b] for a Mul gate.
C1_GateEquations ==
    (EvalEnded /\ InRange) =>
        /\ pc = "eval_done"
        /\ \A k \in 1..Depth : \A j \in 1..Len(circuit.layers[k].layer) :
            LET g == circuit.layers[k].layer[j]
                T == evaluation.layers
                x == T[k + 1][g.inputs[1] + 1]
                y == T[k + 1][g.inputs[2] + 1]
            IN  T[k][j] = IF g.g_type = "Add" THEN (x + y) % Modulus ELSE (x * y) % Modulus

\* A two-layer evaluation has returned whose output layer holds a gate whose
\* sum and product of operands differ.
C1_Witness ==
    /\ pc = "eval_done"
    /\ Depth = 2
    /\ \E j \in 1..Len(circuit.layers[1].layer) :
        LET g == circuit.layers[1].layer[j]
            x == evaluation.layers[2][g.inputs[1] + 1]
            y == evaluation.layers[2][g.inputs[2] + 1]
        IN  (x + y) % Modulus # (x * y) % Modulus

\* C2: for every circuit (also one with no layers) and valid input, the trace
\* has one entry more than the circuit has layers, and its last entry is the
\* input vector unchanged.
C2_InputEchoed ==
    (EvalEnded /\ InRange) =>
        /\ pc = "eval_done"
        /\ Len(evaluation.layers) = Depth + 1
        /\ evaluation.layers[Depth + 1] = input

\* A two-layer evaluation has returned whose input differs from the values
\* the innermost layer computed from it.
C2_Witness ==
    /\ pc = "eval_done"
    /\ Depth = 2
    /\ evaluation.layers[2] # input

\* C3 as stated: trace entry k has as many values as circuit layer k-1 has
\* gates for k >= 1, and as circuit layer 0 has for k = 0 (0-based indices).
C3_Original ==
    (pc = "eval_done" /\ Depth >= 1) =>
        \A k \in 0..Depth :
            /\ k >= 1 => Len(evaluation.layers[k + 1]) = Len(circuit.layers[k].layer)
            /\ k = 0 => Len(evaluation.layers[1]) = Len(circuit.layers[1].layer)

\* C3 as amended: trace entry k has as many values as circuit layer k has
\* gates, for every k below the number of layers, and the last trace entry has
\* as many values as the input vector (0-based indices).
C3_TraceWidths ==
    (EvalEnded /\ InRange) =>
        /\ pc = "eval_done"
        /\ \A k \in 0..(Depth - 1) :
            Len(evaluation.layers[k + 1]) = Len(circuit.layers[k + 1].layer)
        /\ Len(evaluation.layers[Depth + 1]) = Len(input)

\* A two-layer evaluation has returned for a circuit whose two layers and
\* input all differ in width from their neighbour.
C3_Witness ==
    /\ pc = "eval_done"
    /\ Depth = 2
    /\ Len(circuit.layers[1].layer) # Len(circuit.layers[2].layer)
    /\ Len(circuit.layers[2].layer) # Len(input)

\* C4: when some gate input index is out of range, evaluate ends by returning
\* an IndexOutOfRange error: it neither panics nor returns a trace.
C4_IndexOutOfRangeReturned ==
    (~InRange) =>
        /\ pc # "eval_panic"
        /\ pc # "eval_done"
        /\ EvalEnded => pc = "eval_index_out_of_range"

\* C5: for every layer_index >= the number of layers, get_add_n_mul_mle fails
\* with the layer-index-out-of-bounds condition before a gate is read or a
\* wiring index or variable count is computed, and returns no MLE pair.
C5_LayerIndexRejected ==
    (pc # "idle" /\ layer_index >= Depth) =>
        /\ pc = "enc_layer_index_out_of_bounds"
        /\ gate_i = 0
        /\ mle_num_of_vars = 0
        /\ add_usize_vec = <<>>
        /\ mul_usize_vec = <<>>
        /\ mle_pair = <<NoMle, NoMle>>

\* The call was made with layer_index equal to the number of layers of a
\* circuit that has layers, and failed.
C5_Witness ==
    /\ pc = "enc_layer_index_out_of_bounds"
    /\ Depth >= 1
    /\ layer_index = Depth

CeilLog2(x) == CHOOSE w \in 0..x : Pow2(w) >= x /\ (w = 0 \/ Pow2(w - 1) < x)

\* m and n of the encoded layer, from the actual sizes.
GateBits == CeilLog2(Len(circuit.layers[layer_index + 1].layer))

InputBits == CeilLog2(NextSize(layer_index + 1))

\* The flat index of gate i with inputs (a, b): (i << 2n) | (a << n) | b.
PackedIndex(i, a, b, w) == i * Pow2(2 * w) + a * Pow2(w) + b

EncodedLayer == circuit.layers[layer_index + 1].layer

PackedIndices(type) ==
    {PackedIndex(j - 1, EncodedLayer[j].inputs[1], EncodedLayer[j].inputs[2], InputBits) :
        j \in {i \in 1..Len(EncodedLayer) : EncodedLayer[i].g_type = type}}

\* C6: both returned MLEs have m + 2n variables, m and n being the bit
\* widths of the layer's actual size and of the actual size of what it reads.
C6_NumVarsFromSizes ==
    pc = "enc_done" =>
        /\ mle_pair[1].num_vars = GateBits + 2 * InputBits
        /\ mle_pair[2].num_vars = GateBits + 2 * InputBits

\* C7: the indices collected for Add gates and for Mul gates are disjoint,
\* together they are as many as the layer has gates, and the index of gate i
\* with inputs (a, b) is (i << 2n) | (a << n) | b.
C7_IndexSets ==
    (pc = "enc_done" /\ InRange) =>
        /\ Range(add_usize_vec) \cap Range(mul_usize_vec) = {}
        /\ Cardinality(Range(add_usize_vec) \cup Range(mul_usize_vec)) = Len(EncodedLayer)
        /\ Range(add_usize_vec) = PackedIndices("Add")
        /\ Range(mul_usize_vec) = PackedIndices("Mul")

\* C8: on a circuit with in-range indices, every encoded index lies inside
\* the tables, the add table is one exactly at the points encoding the Add
\* gates, the mul table exactly at those encoding the Mul gates, and both are
\* zero at every other point.
C8_WiringTables ==
    (pc = "enc_done" /\ InRange) =>
        LET add == mle_pair[1].evaluations
            mul == mle_pair[2].evaluations
        IN  /\ \A idx \in Range(add_usize_vec) \cup Range(mul_usize_vec) :
                idx < Pow2(mle_pair[1].num_vars)
            /\ \A idx \in PackedIndices("Add") \cup PackedIndices("Mul") : idx < Len(add)
            /\ Len(add) = Len(mul)
            /\ \A x \in 1..Len(add) :
                /\ add[x] = IF (x - 1) \in PackedIndices("Add") THEN 1 ELSE 0
                /\ mul[x] = IF (x - 1) \in PackedIndices("Mul") THEN 1 ELSE 0

\* t^k, with t^0 = 1 also for t = 0.
Power(t, k) == IF k = 0 THEN 1 ELSE t ^ k

RECURSIVE PolyAt(_, _, _)
\* p(t) = p[0] + p[1] t + .. , summed from the coefficient of degree k on.
PolyAt(p, t, k) ==
    IF k >= Len(p) THEN 0 ELSE p[k + 1] * Power(t, k) + PolyAt(p, t, k + 1)

SamplePositions == {q \in 1..Len(fs_log) : fs_log[q].op = "sample"}

\* The position of the sample before position q, or 0.
PrevSample(q) ==
    IF \E r \in SamplePositions : r < q
    THEN CHOOSE r \in SamplePositions : r < q /\ \A r2 \in SamplePositions : r2 < q => r2 <= r
    ELSE 0

RECURSIVE Appended(_, _)
\* The messages of entries from..to-1 of the log, concatenated in order.
Appended(from, to) ==
    IF from >= to THEN <<>> ELSE fs_log[from].msg \o Appended(from + 1, to)

\* What the sample at position q is to be the hash of.
Absorbed(q) ==
    IF PrevSample(q) = 0
    THEN Appended(1, q)
    ELSE <<fs_log[PrevSample(q)].out>> \o Appended(PrevSample(q) + 1, q)

\* C10: the first sample is the hash of msg0 followed by the messages
\* appended before it, every later sample is the hash of the previous
\* sample's output followed by the messages appended since, and a second
\* transcript driven by the same operations returns the same samples.
C10_SampleChain ==
    \A q \in SamplePositions :
        /\ fs_log[q].out > MaxByte
        /\ fs_log[q].out - MaxByte <= Len(keccak)
        /\ keccak[fs_log[q].out - MaxByte] = Absorbed(q)
        /\ fs_log[q].out2 = fs_log[q].out

\* Two samples were taken, with a non-empty message appended between them,
\* on a transcript created with a non-empty message.
C10_Witness ==
    /\ Len(fs_log) = 4
    /\ fs_log[1].msg # <<>>
    /\ fs_log[2].op = "sample"
    /\ fs_log[3].op = "append"
    /\ fs_log[3].msg # <<>>
    /\ fs_log[4].op = "sample"

====
